---- MODULE Spec2Model ----
(***************************************************************************)
(* Batch extraction of publication details from PDF files.                 *)
(*                                                                         *)
(* The repository holds two scripts, main.py and main2.py.  Both list the  *)
(* *.pdf files of a directory in name order, apply an offset/count window  *)
(* and run one pydantic_ai agent per file; the agent may call the tool     *)
(* get_pdf_content and must return a PublicationDetail.  main.py writes    *)
(* the result next to the PDF as a .txt file; main2.py only prints it.     *)
(* The variable `variant` says which script is running.                    *)
(*                                                                         *)
(* File names are modelled by their rank in the lexicographic order of     *)
(* the names (1 sorts before 2, ...).  The model service, the PDF library  *)
(* and the file system are the environment: their answers are chosen       *)
(* nondeterministically from small sample sets.                            *)
(***************************************************************************)
EXTENDS Integers, Sequences, FiniteSets

\* ------------------------------------------------------------------------
\* Bounds of the model
\* ------------------------------------------------------------------------
MaxFiles == 2
MaxOffset == 3
MaxCount == 2
\* stands for pydantic_ai's default request_limit (50), which main.py keeps
DefaultRequestLimit == 3

Names == 1..MaxFiles

\* ------------------------------------------------------------------------
\* Program constants
\* ------------------------------------------------------------------------
Variants == {"main", "main2"}

\* request_limit=2 of main2.py
Main2RequestLimit == 2

\* the agent is built without `retries`, so one retry of an invalid result
MaxResultRetries == 1

\* `len(text_content) < 10`
MinTextLen == 10

PublicationNamesLoose == {"activist", "transport worker", "national conference", "other", "transport_worker"}

\* Literal[...] of PublicationDetail.publication_name
PublicationNames == {"activist", "transport worker", "national conference", "other"}

NoPagesMsg == "PDF has no pages"
ImageHintMsg == "PDF appears to be image-based or has limited text content. Consider using OCR for better results."
ErrorMsg == "Error processing PDF"
TextContent == "text_content"
Uncalled == "uncalled"

\* Optional values: None is the empty sequence, a value v is <<v>>
None == <<>>
Some(v) == <<v>>

\* ------------------------------------------------------------------------
\* Sample answers of the environment
\* ------------------------------------------------------------------------
\* dates are sequences of characters
Date1987 == <<"1", "9", "8", "7">>
Date032020 == <<"0", "3", "/", "2", "0", "2", "0">>
DateMarch2020 == <<"M", "a", "r", "c", "h", " ", "2", "0", "2", "0">>

ModelPublications == {"activist", "transport worker", "transport_worker"}
ModelDates == {Date1987, Date032020, DateMarch2020}
ModelHeadlines == {"Workers Rally"}

\* what the model service may hand back as its final result
ModelResults == [publication_name : ModelPublications, date : ModelDates, headline : ModelHeadlines]

\* a PDF on disk: can it be opened and parsed, its page count, and the
\* length of the text extracted from its first page
PdfStates ==
    { [readable |-> FALSE, pages |-> 0, textLen |-> 0],
      [readable |-> TRUE, pages |-> 0, textLen |-> 0],
      [readable |-> TRUE, pages |-> 1, textLen |-> 0],
      [readable |-> TRUE, pages |-> 1, textLen |-> MinTextLen - 1],
      [readable |-> TRUE, pages |-> 2, textLen |-> MinTextLen] }

\* outcome of writing the .txt file
IoOutcomes == {"ok", "open_fails", "dump_fails"}

\* ------------------------------------------------------------------------
\* The output file next to a PDF
\* ------------------------------------------------------------------------
NoDate == <<>>
Absent == [kind |-> "absent", publication |-> "", date |-> NoDate, headline |-> ""]
Stale == [kind |-> "stale", publication |-> "", date |-> NoDate, headline |-> ""]
Partial == [kind |-> "partial", publication |-> "", date |-> NoDate, headline |-> ""]

\* json.dump({"publication": ..., "date": ..., "headline": ...})
json_dump(data) ==
    [kind |-> "record", publication |-> data.publication_name, date |-> data.date, headline |-> data.headline]

write_txt_skip(old, data, io) ==
    IF io = "dump_fails" THEN Partial ELSE old

\* `with open(txt_filename, 'w') as txt_file: json.dump(...)`: open creates
\* or truncates the file, then the record is serialised into it
write_txt(old, data, io) ==
    CASE io = "ok" -> json_dump(data)
      [] io = "open_fails" -> old
      [] io = "dump_fails" -> Partial

\* ------------------------------------------------------------------------
\* Listing and window
\* ------------------------------------------------------------------------
Min(a, b) == IF a < b THEN a ELSE b
Max(a, b) == IF a > b THEN a ELSE b

SetMin(S) == CHOOSE x \in S : \A y \in S : x <= y

RECURSIVE sorted(_)
\* sorted(list(directory.glob("*.pdf")))
sorted(S) ==
    IF S = {} THEN <<>>
    ELSE <<SetMin(S)>> \o sorted(S \ {SetMin(S)})

\* s[k:]
SliceFrom(s, k) ==
    LET start == IF k >= 0 THEN Min(k, Len(s)) ELSE Max(Len(s) + k, 0)
    IN SubSeq(s, start + 1, Len(s))

\* s[:m]
SliceTo(s, m) ==
    LET stop == IF m >= 0 THEN Min(m, Len(s)) ELSE Max(Len(s) + m, 0)
    IN SubSeq(s, 1, stop)

apply_window_count_first(listing, off, cnt) ==
    SliceFrom(IF cnt # None THEN SliceTo(listing, cnt[1]) ELSE listing, off)

\* pdf_files = pdf_files[offset:]; if count is not None: pdf_files[:count]
apply_window(listing, off, cnt) ==
    LET tail == SliceFrom(listing, off)
    IN IF cnt # None THEN SliceTo(tail, cnt[1]) ELSE tail

dir_ok_exists_only(kind) == kind # "missing"

\* directory.exists() and directory.is_dir()
dir_ok(kind) == kind = "dir"

\* ------------------------------------------------------------------------
\* The tool
\* ------------------------------------------------------------------------
Returned(v) == [raised |-> FALSE, value |-> v]
Raised == [raised |-> TRUE, value |-> ""]

get_pdf_content_no_except(v, pdf) ==
    IF ~pdf.readable THEN Raised
    ELSE IF pdf.pages = 0 THEN Returned(NoPagesMsg)
    ELSE IF pdf.textLen = 0 \/ pdf.textLen < MinTextLen THEN Returned(ImageHintMsg)
    ELSE Returned(TextContent)

get_pdf_content_short_threshold(v, pdf) ==
    IF ~pdf.readable THEN (IF v = "main" THEN Returned(ErrorMsg) ELSE Raised)
    ELSE IF pdf.pages = 0 THEN Returned(NoPagesMsg)
    ELSE IF pdf.textLen = 0 \/ pdf.textLen < MinTextLen - 1 THEN Returned(ImageHintMsg)
    ELSE Returned(TextContent)

\* main.py wraps the body in try/except and returns the error message;
\* main2.py lets the exception out of the tool
get_pdf_content(v, pdf) ==
    IF ~pdf.readable THEN (IF v = "main" THEN Returned(ErrorMsg) ELSE Raised)
    ELSE IF pdf.pages = 0 THEN Returned(NoPagesMsg)
    ELSE IF pdf.textLen = 0 \/ pdf.textLen < MinTextLen THEN Returned(ImageHintMsg)
    ELSE Returned(TextContent)

\* ------------------------------------------------------------------------
\* The agent run and the counters
\* ------------------------------------------------------------------------
RequestLimitUncapped(v) == DefaultRequestLimit

\* UsageLimits(...): main2.py passes request_limit=2, main.py no request_limit
RequestLimit(v) == IF v = "main2" THEN Main2RequestLimit ELSE DefaultRequestLimit

TallySwapped(result, s, f) ==
    IF result # None THEN <<s, f + 1>> ELSE <<s + 1, f>>

\* `if result: successful += 1 else: failed += 1`
Tally(result, s, f) ==
    IF result # None THEN <<s + 1, f>> ELSE <<s, f + 1>>

\* ------------------------------------------------------------------------
\* State
\* ------------------------------------------------------------------------
VARIABLES
    variant,      \* which script runs
    dirKind,      \* "dir", "missing" or "notdir"
    pdfs,         \* names of the *.pdf files of the directory
    offset,       \* --offset
    count,        \* --count, None when absent
    pdf_files,    \* the listing after the window
    idx,          \* number of files of pdf_files the loop has finished
    successful,
    failed,
    pc,           \* "start", "aborted", "returned", "loop", "request", "tool", "done"
    cur,          \* the file being processed (0 before the first)
    curPdf,       \* the state of the PDF of cur
    requests,     \* requests sent to the model service in the run for cur
    retries,      \* result retries used in the run for cur
    toolOut,      \* what get_pdf_content last returned in the run for cur
    accepted,     \* the validated result of the run for cur, or None
    site,         \* where the run for cur failed, as logged; "none" if it did not
    outcome,      \* per file: "pending", "success" or "failed"
    outFile,      \* per file: the .txt file next to it
    processed,    \* files handed to agent.run, in order
    runs          \* per file: number of agent.run calls

vars == <<variant, dirKind, pdfs, offset, count, pdf_files, idx, successful, failed, pc,
          cur, curPdf, requests, retries, toolOut, accepted, site, outcome, outFile,
          processed, runs>>

args == <<variant, dirKind, pdfs, offset, count>>
transient == <<cur, curPdf, requests, retries, toolOut, accepted, site>>
tallies == <<successful, failed, outcome, outFile>>

Init ==
    /\ variant \in Variants
    /\ dirKind \in {"dir", "missing", "notdir"}
    /\ pdfs \in SUBSET Names
    /\ dirKind # "dir" => pdfs = {}
    /\ offset \in 0..MaxOffset
    /\ count \in {None} \cup {Some(c) : c \in 0..MaxCount}
    /\ pdf_files = <<>>
    /\ idx = 0
    /\ successful = 0
    /\ failed = 0
    /\ pc = "start"
    /\ cur = 0
    /\ curPdf \in {CHOOSE p \in PdfStates : ~p.readable}
    /\ requests = 0
    /\ retries = 0
    /\ toolOut = Uncalled
    /\ accepted = None
    /\ site = "none"
    /\ outcome = [n \in Names |-> "pending"]
    /\ \E old \in {Absent, Stale} : outFile = [n \in Names |-> IF n \in pdfs THEN old ELSE Absent]
    /\ processed = <<>>
    /\ runs = [n \in Names |-> 0]

\* ------------------------------------------------------------------------
\* Actions
\* ------------------------------------------------------------------------
\* the directory check fails: main prints the error and returns
ConfigError ==
    /\ pc = "start"
    /\ ~dir_ok(dirKind)
    /\ pc' = "aborted"
    /\ UNCHANGED <<args, pdf_files, idx, processed, runs, transient, tallies>>

\* get_pdf_files (main.py) / the same lines inlined in main2.py
ListFiles ==
    /\ pc = "start"
    /\ dir_ok(dirKind)
    /\ LET listing == sorted(pdfs)
       IN IF listing = <<>>
          THEN /\ pdf_files' = <<>>
               /\ pc' = IF variant = "main" THEN "loop" ELSE "returned"
          ELSE /\ pdf_files' = apply_window(listing, offset, count)
               /\ pc' = "loop"
    /\ UNCHANGED <<args, idx, processed, runs, transient, tallies>>

\* the loop takes the next file and calls agent.run once
StartRun ==
    /\ pc = "loop"
    /\ idx < Len(pdf_files)
    /\ cur' = pdf_files[idx + 1]
    /\ curPdf' \in PdfStates
    /\ requests' = 0
    /\ retries' = 0
    /\ toolOut' = Uncalled
    /\ accepted' = None
    /\ site' = "none"
    /\ processed' = Append(processed, pdf_files[idx + 1])
    /\ runs' = [runs EXCEPT ![pdf_files[idx + 1]] = @ + 1]
    /\ pc' = "request"
    /\ UNCHANGED <<args, pdf_files, idx, tallies>>

\* the end of one iteration: the run returned `result` (None when an
\* exception was caught), the output file is `file`, the counters move on
Finish(result, where, file) ==
    /\ site' = where
    /\ outcome' = [outcome EXCEPT ![cur] = IF result # None THEN "success" ELSE "failed"]
    /\ outFile' = [outFile EXCEPT ![cur] = file]
    /\ successful' = Tally(result, successful, failed)[1]
    /\ failed' = Tally(result, successful, failed)[2]
    /\ idx' = idx + 1
    /\ pc' = "loop"

\* usage_limits.check_before_request: the request limit is used up
RequestLimitExceeded ==
    /\ pc = "request"
    /\ requests >= RequestLimit(variant)
    /\ Finish(None, "usage", outFile[cur])
    /\ UNCHANGED <<args, pdf_files, processed, runs, cur, curPdf, requests, retries, toolOut, accepted>>

\* the request fails (network, rate limit, token limits)
ServiceError ==
    /\ pc = "request"
    /\ requests < RequestLimit(variant)
    /\ requests' = requests + 1
    /\ Finish(None, "service", outFile[cur])
    /\ UNCHANGED <<args, pdf_files, processed, runs, cur, curPdf, retries, toolOut, accepted>>

\* the model answers with a call of get_pdf_content
ToolCall ==
    /\ pc = "request"
    /\ requests < RequestLimit(variant)
    /\ requests' = requests + 1
    /\ pc' = "tool"
    /\ UNCHANGED <<args, pdf_files, idx, processed, runs, cur, curPdf, retries, toolOut, accepted, site, tallies>>

\* get_pdf_content runs; its return value goes into the next request
RunTool ==
    /\ pc = "tool"
    /\ LET out == get_pdf_content(variant, curPdf)
       IN IF out.raised
          THEN /\ Finish(None, "tool", outFile[cur])
               /\ UNCHANGED toolOut
          ELSE /\ toolOut' = out.value
               /\ pc' = "request"
               /\ UNCHANGED <<idx, site, tallies>>
    /\ UNCHANGED <<args, pdf_files, processed, runs, cur, curPdf, requests, retries, accepted>>

\* a result that does not validate (or plain text) costs one result retry;
\* past MaxResultRetries the run raises
Retry ==
    IF retries + 1 > MaxResultRetries
    THEN /\ Finish(None, "retries", outFile[cur])
         /\ retries' = retries + 1
    ELSE /\ retries' = retries + 1
         /\ pc' = "request"
         /\ UNCHANGED <<idx, site, tallies>>

\* the model answers with plain text instead of a structured result
TextResponse ==
    /\ pc = "request"
    /\ requests < RequestLimit(variant)
    /\ requests' = requests + 1
    /\ Retry
    /\ UNCHANGED <<args, pdf_files, processed, runs, cur, curPdf, toolOut, accepted>>

\* the model answers with a result that PublicationDetail rejects
InvalidResult ==
    /\ pc = "request"
    /\ requests < RequestLimit(variant)
    /\ \E r \in ModelResults :
        /\ r.publication_name \notin PublicationNames
        /\ requests' = requests + 1
        /\ Retry
    /\ UNCHANGED <<args, pdf_files, processed, runs, cur, curPdf, toolOut, accepted>>

\* the model answers with a result that validates: main.py writes the .txt
\* file and returns result.data (None if writing raised); main2.py counts
ValidResult ==
    /\ pc = "request"
    /\ requests < RequestLimit(variant)
    /\ \E r \in ModelResults, io \in IoOutcomes :
        /\ r.publication_name \in PublicationNames
        /\ requests' = requests + 1
        /\ accepted' = Some(r)
        /\ IF variant = "main"
           THEN Finish(IF io = "ok" THEN Some(r) ELSE None,
                       CASE io = "ok" -> "none" [] io = "open_fails" -> "open" [] io = "dump_fails" -> "dump",
                       write_txt(outFile[cur], r, io))
           ELSE /\ io = "ok"
                /\ Finish(Some(r), "none", outFile[cur])
    /\ UNCHANGED <<args, pdf_files, processed, runs, cur, curPdf, retries, toolOut>>

\* the loop is over: the summary line is printed
Summary ==
    /\ pc = "loop"
    /\ idx = Len(pdf_files)
    /\ pc' = "done"
    /\ UNCHANGED <<args, pdf_files, idx, processed, runs, transient, tallies>>

Next ==
    \/ ConfigError
    \/ ListFiles
    \/ StartRun
    \/ RequestLimitExceeded
    \/ ServiceError
    \/ ToolCall
    \/ RunTool
    \/ TextResponse
    \/ InvalidResult
    \/ ValidResult
    \/ Summary

Spec == Init /\ [][Next]_vars

\* ------------------------------------------------------------------------
\* Helpers of the properties
\* ------------------------------------------------------------------------
\* the loop has finished at least one file; cur and the transient
\* variables describe the file finished last
Completed == pc \in {"loop", "done"} /\ idx > 0

\* get_pdf_content could not open or parse the PDF of cur
ReadFailed == ~curPdf.readable /\ (toolOut = ErrorMsg \/ site = "tool")

\* the PDF of cur has no pages, or too little text on its first page
Degraded == curPdf.readable /\ (curPdf.pages = 0 \/ curPdf.textLen < 10)

CountOf(o) == Cardinality({n \in Names : outcome[n] = o})

Digits == {"0", "1", "2", "3", "4", "5", "6", "7", "8", "9"}

\* the lexical shapes YYYY and MM/YYYY
DateShape(d) ==
    \/ Len(d) = 4 /\ \A i \in 1..4 : d[i] \in Digits
    \/ Len(d) = 7 /\ d[3] = "/" /\ \A i \in {1, 2, 4, 5, 6, 7} : d[i] \in Digits

\* 0-based position of a file in the name-ascending listing of the directory
Rank(e) == Cardinality({x \in pdfs : x < e})

InWindow(e) == Rank(e) >= offset /\ (count = None \/ Rank(e) < offset + count[1])

\* ------------------------------------------------------------------------
\* C1
\* ------------------------------------------------------------------------
\* C1 as stated: once a file is finished, any failure in its unit of work
\* (reading the PDF, the service call, validation, writing the output)
\* made it a failed file, never a successful one.
C1FailureNeverSuccess ==
    Completed /\ (ReadFailed \/ site # "none") => outcome[cur] = "failed"

\* C1 amended: every failure raised by the service call, the request limit,
\* the validation of the result or the writing of the output is caught at
\* the file boundary, counted as one failure, and the loop goes on; a
\* failure to read the PDF is raised only in main2.py (and counted there),
\* main.py's get_pdf_content never raises but returns the error message,
\* and the file is then counted by what the rest of the run does.
C1RaisedFailureCounted ==
    /\ Completed => (site # "none" <=> outcome[cur] = "failed")
    /\ failed = CountOf("failed")
    /\ variant = "main" => site # "tool"
    /\ variant = "main" /\ ReadFailed => toolOut = ErrorMsg
    /\ variant = "main2" /\ Completed /\ ReadFailed => site = "tool" /\ outcome[cur] = "failed"
    /\ pc = "loop" /\ idx < Len(pdf_files) => ENABLED StartRun
    /\ pc = "done" => idx = Len(pdf_files)
    /\ pc \in {"aborted", "returned"} => idx = 0

\* the first file failed with a raised error, the second was still
\* processed and succeeded
C1Witness ==
    /\ pc = "done"
    /\ Len(pdf_files) = 2
    /\ outcome[pdf_files[1]] = "failed"
    /\ outcome[pdf_files[2]] = "success"
    /\ failed = 1

\* ------------------------------------------------------------------------
\* C2
\* ------------------------------------------------------------------------
\* C2: successful + failed is the number of files finished so far, and the
\* size of the post-window listing when the loop is over; every finished
\* file moved exactly one counter once.
C2CountersSum ==
    /\ successful + failed = idx
    /\ idx = Cardinality({n \in Names : outcome[n] # "pending"})
    /\ idx <= Len(pdf_files)
    /\ successful = CountOf("success")
    /\ failed = CountOf("failed")
    /\ \A n \in Names : runs[n] <= 1
    /\ pc = "done" => successful + failed = Len(pdf_files)

C2Witness ==
    pc = "done" /\ successful = 1 /\ failed = 1 /\ Len(pdf_files) = 2

\* ------------------------------------------------------------------------
\* C3
\* ------------------------------------------------------------------------
\* C3 as stated: a file has an output record written by the run if and
\* only if it is counted successful.
C3RecordIffSuccess ==
    \A n \in Names : outcome[n] = "success" <=> outFile[n].kind = "record"

\* C3 amended: in main.py a file has an output record written by the run
\* if and only if it is counted successful; main2.py writes no output file
\* at all, whatever it counts.
C3RecordIffSuccessInMain ==
    /\ variant = "main" =>
        \A n \in Names : outcome[n] = "success" <=> outFile[n].kind = "record"
    /\ variant = "main2" =>
        \A n \in Names : outFile[n].kind \in {"absent", "stale"}

C3Witness ==
    /\ variant = "main"
    /\ pc = "done"
    /\ \E n \in Names : outcome[n] = "success" /\ outFile[n].kind = "record"
    /\ \E n \in Names : outcome[n] = "failed" /\ outFile[n].kind # "record"

\* ------------------------------------------------------------------------
\* C4
\* ------------------------------------------------------------------------
\* C4: the files processed are the slice [offset, offset+count) of the
\* name-ascending listing (the tail from offset without count), in that
\* order, one at a time; an offset at or past the end processes nothing
\* and is no error.
C4WindowInOrder ==
    /\ pc \in {"loop", "request", "tool", "done"} =>
        /\ {pdf_files[i] : i \in 1..Len(pdf_files)} = {e \in pdfs : InWindow(e)}
        /\ \A i, j \in 1..Len(pdf_files) : i < j => pdf_files[i] < pdf_files[j]
        /\ Len(processed) = idx + (IF pc \in {"request", "tool"} THEN 1 ELSE 0)
        /\ processed = SubSeq(pdf_files, 1, Len(processed))
    /\ pc = "done" => processed = pdf_files
    /\ pc = "returned" => pdfs = {} /\ processed = <<>>
    /\ dirKind = "dir" /\ offset >= Cardinality(pdfs) =>
        processed = <<>> /\ pc # "aborted" /\ site = "none" /\ failed = 0

\* two files, offset 1 and count 1: exactly the second was processed
C4Witness ==
    /\ pc = "done"
    /\ Cardinality(pdfs) = 2
    /\ offset = 1
    /\ count = Some(1)
    /\ processed = <<2>>

\* ------------------------------------------------------------------------
\* C5
\* ------------------------------------------------------------------------
\* C5: with a missing directory, or a path that is no directory, the run
\* ends before the listing: no request, no output file, no counter moved.
C5FailFast ==
    dirKind # "dir" =>
        /\ pc \in {"start", "aborted"}
        /\ pdf_files = <<>>
        /\ processed = <<>>
        /\ requests = 0
        /\ successful = 0
        /\ failed = 0
        /\ \A n \in Names : outFile[n] = Absent /\ runs[n] = 0 /\ outcome[n] = "pending"

C5Witness ==
    pc = "aborted" /\ dirKind = "notdir"

\* ------------------------------------------------------------------------
\* C6
\* ------------------------------------------------------------------------
\* C6: a file counted as failed never has a partial, empty or corrupt
\* output file left at its output path.
C6NoPartialOutput ==
    \A n \in Names : outcome[n] = "failed" => outFile[n].kind # "partial"

\* ------------------------------------------------------------------------
\* C7
\* ------------------------------------------------------------------------
\* C7 as stated: every record written has a publication that is one of
\* activist, transport_worker, national_conference, other.
C7PublicationUnderscored ==
    \A n \in Names : outFile[n].kind = "record" =>
        outFile[n].publication \in {"activist", "transport_worker", "national_conference", "other"}

\* C7 amended: every record written has a publication that is one of
\* activist, transport worker, national conference, other (with spaces);
\* a result with any other value, transport_worker included, is not
\* accepted and never written.
C7PublicationSpaced ==
    /\ \A n \in Names : outFile[n].kind = "record" =>
        outFile[n].publication \in {"activist", "transport worker", "national conference", "other"}
    /\ accepted # None =>
        accepted[1].publication_name \in {"activist", "transport worker", "national conference", "other"}

C7Witness ==
    \E n \in Names : outFile[n].kind = "record" /\ outFile[n].publication = "transport worker"

\* ------------------------------------------------------------------------
\* C8
\* ------------------------------------------------------------------------
\* C8: every record written has a date of the shape MM/YYYY or YYYY.
C8DateShaped ==
    \A n \in Names : outFile[n].kind = "record" => DateShape(outFile[n].date)

\* ------------------------------------------------------------------------
\* C9
\* ------------------------------------------------------------------------
\* C9 as stated: processing one document issues exactly one request to
\* the model service.
C9OneRequest ==
    Completed => requests = 1

\* C9 amended: processing one document calls agent.run exactly once; that
\* run issues at least one request and at most the request limit (2 in
\* main2.py, the library default in main.py), with at most one retry of an
\* invalid result before the run fails.
C9OneRunBoundedRequests ==
    /\ \A n \in Names : runs[n] = (IF \E i \in 1..Len(processed) : processed[i] = n THEN 1 ELSE 0)
    /\ Completed => requests >= 1
    /\ variant = "main2" => requests <= 2
    /\ variant = "main" => requests <= DefaultRequestLimit
    /\ retries <= 2
    /\ retries = 2 => site = "retries"

\* a tool-call round trip: two requests, then success
C9Witness ==
    /\ Completed
    /\ requests = 2
    /\ toolOut # Uncalled
    /\ outcome[cur] = "success"

\* ------------------------------------------------------------------------
\* C10
\* ------------------------------------------------------------------------
\* C10: for a PDF without pages get_pdf_content returns the no-pages
\* message, for first-page text under 10 characters the image hint; it
\* returns them instead of raising, so the run never fails in the tool for
\* such a file, and a validated result for it counts as a success (unless
\* writing the output fails).
C10DegradedContentReturned ==
    /\ toolOut # Uncalled /\ curPdf.readable /\ curPdf.pages = 0 => toolOut = NoPagesMsg
    /\ toolOut # Uncalled /\ curPdf.readable /\ curPdf.pages > 0 /\ curPdf.textLen < 10 =>
        toolOut = ImageHintMsg
    /\ toolOut # Uncalled /\ curPdf.readable /\ curPdf.pages > 0 /\ curPdf.textLen >= 10 =>
        toolOut = TextContent
    /\ Degraded => site # "tool"
    /\ Completed /\ Degraded /\ accepted # None /\ site \notin {"open", "dump"} =>
        outcome[cur] = "success"

C10Witness ==
    /\ Completed
    /\ curPdf.textLen = 9
    /\ toolOut = ImageHintMsg
    /\ outcome[cur] = "success"

====
